---- MODULE Spec2Model ----
\* Media pipeline of sfdcai/media-storage: the record store (common/database.py),
\* the six stage modules and the orchestrator (pipeline_orchestrator.py).
\*
\* The record store is the sqlite file media.db.  Every method of
\* DatabaseManager opens its own connection through get_connection, which
\* closes the connection on exit.  Only init_database, start_pipeline_stage
\* and complete_pipeline_stage call conn.commit(); the statements of the
\* other methods run in the implicit transaction that sqlite3 opens before
\* INSERT/UPDATE, and conn.close() discards that transaction.  The model keeps
\* the committed table (media) apart from the statements a step executed
\* (writes), so that both "what a stage tried to set" and "what a later query
\* can see" are stated on the state.
EXTENDS Integers, Sequences, FiniteSets, TLC

\* ---------------------------------------------------------------- bounds
NumFiles == 2          \* tracked files (rows / icloud_ids)
MaxStages == 1         \* longest --stages list given on the command line
MaxInterrupts == 1     \* interrupted runs that are followed by a new invocation

\* ------------------------------------------------------- program constants
max_retries == 3
min_compression_ratio == 10     \* percent
delete_after_sync == FALSE

IDs == 1..NumFiles

\* PipelineOrchestrator.stages
StageOrder == <<"icloud_sync", "pixel_sync", "nas_sync", "compression", "cleanup", "deletion">>

StageNames == {StageOrder[k] : k \in 1..Len(StageOrder)}

BatchStages == {"nas_sync", "compression", "cleanup", "deletion"}

Range(s) == {s[k] : k \in 1..Len(s)}

\* ------------------------------------------------------------ record store
\* One row of table media (CREATE TABLE media); present = the row exists.
Row(id, sg, sn, am, di, lc) ==
    [present |-> TRUE, filename |-> id, status |-> "downloaded",
     synced_google |-> sg, synced_nas |-> sn, album_moved |-> am,
     deleted_icloud |-> di, last_compressed |-> lc, initial_size |-> 0,
     current_size |-> 0, error_count |-> 0]

NoRow ==
    [present |-> FALSE, filename |-> 0, status |-> "NULL",
     synced_google |-> "NULL", synced_nas |-> "NULL", album_moved |-> 0,
     deleted_icloud |-> "NULL", last_compressed |-> "NULL", initial_size |-> 0,
     current_size |-> 0, error_count |-> 0]

\* a statement a method executed: the column and the bound value, the row as
\* the statement left it inside its own connection, and rowcount > 0
Stmt(id, field, value, working, hit) ==
    [id |-> id, field |-> field, value |-> value, row |-> working[id], ok |-> hit]

\* get_connection: yield conn ... finally conn.close().  No commit on exit:
\* the pending transaction (working) is rolled back, the file keeps committed.
get_connection(committed, working) == committed

\* add_media_record with INSERT OR REPLACE: an existing row is replaced by a fresh one
add_media_record_replace(db, id) ==
    LET working == [db EXCEPT ![id] = Row(id, "NULL", "NULL", 0, "NULL", "NULL")]
    IN [ok |-> TRUE, db |-> get_connection(db, working), stmt |-> Stmt(id, "insert", id, working, TRUE)]

\* INSERT OR IGNORE INTO media ...; returns cursor.rowcount > 0
add_media_record(db, id) ==
    LET hit == ~db[id].present
        working == IF hit
                   THEN [db EXCEPT ![id] = Row(id, "NULL", "NULL", 0, "NULL", "NULL")]
                   ELSE db
    IN [ok |-> hit, db |-> get_connection(db, working), stmt |-> Stmt(id, "insert", id, working, hit)]

\* UPDATE media SET {field} = ? WHERE icloud_id = ?; returns rowcount > 0
update_media_field(db, id, field, value) ==
    LET hit == db[id].present
        working == IF hit THEN [db EXCEPT ![id][field] = value] ELSE db
    IN [ok |-> hit, db |-> get_connection(db, working), stmt |-> Stmt(id, field, value, working, hit)]

mark_synced_google(db, id) == update_media_field(db, id, "synced_google", "yes")

mark_synced_nas(db, id) == update_media_field(db, id, "synced_nas", "yes")

mark_album_moved(db, id) == update_media_field(db, id, "album_moved", 1)

mark_deleted_icloud(db, id) == update_media_field(db, id, "deleted_icloud", "yes")

\* UPDATE media SET current_size = ?, last_compressed = CURRENT_TIMESTAMP
mark_compressed(db, id, new_size) ==
    LET hit == db[id].present
        working == IF hit
                   THEN [db EXCEPT ![id].last_compressed = "ts", ![id].current_size = new_size]
                   ELSE db
    IN [ok |-> hit, db |-> get_connection(db, working), stmt |-> Stmt(id, "last_compressed", "ts", working, hit)]

\* set_initial_size with `SET initial_size = ?`, without COALESCE
set_initial_size_overwrite(db, id, size) ==
    LET hit == db[id].present
        working == IF hit THEN [db EXCEPT ![id].initial_size = size] ELSE db
    IN [ok |-> hit, db |-> get_connection(db, working), stmt |-> Stmt(id, "initial_size", size, working, hit)]

\* UPDATE media SET initial_size = COALESCE(initial_size, ?); 0 stands for NULL
set_initial_size(db, id, size) ==
    LET hit == db[id].present
        value == IF db[id].initial_size # 0 THEN db[id].initial_size ELSE size
        working == IF hit THEN [db EXCEPT ![id].initial_size = value] ELSE db
    IN [ok |-> hit, db |-> get_connection(db, working), stmt |-> Stmt(id, "initial_size", value, working, hit)]

\* UPDATE media SET error_count = error_count + 1, last_error = ?
increment_error_count(db, id) ==
    LET hit == db[id].present
        working == IF hit THEN [db EXCEPT ![id].error_count = @ + 1] ELSE db
    IN [ok |-> hit, db |-> get_connection(db, working), stmt |-> Stmt(id, "error_count", 1, working, hit)]

\* ------------------------------------------------------------ gate queries
\* the rows a SELECT returns, in rowid order, as a list of ids
RowIds == [k \in 1..NumFiles |-> k]

ReadyForNasSync(r) == r.status = "downloaded" /\ r.synced_nas = "NULL"

ReadyForCompression(r) ==
    /\ r.status = "downloaded"
    /\ r.synced_google = "yes"
    /\ r.synced_nas = "yes"
    /\ r.last_compressed = "NULL"

\* the cleanup gate with the WHERE clause of the compression gate
ReadyForCleanup_uncompressed(r) ==
    /\ r.status = "downloaded"
    /\ r.synced_google = "yes"
    /\ r.synced_nas = "yes"
    /\ r.album_moved = 0
    /\ r.last_compressed = "NULL"

ReadyForCleanup(r) ==
    /\ r.status = "downloaded"
    /\ r.synced_google = "yes"
    /\ r.synced_nas = "yes"
    /\ r.album_moved = 0

ReadyForDeletion(r) == r.album_moved = 1 /\ r.deleted_icloud = "NULL"

get_media_by_status(db, status) ==
    SelectSeq(RowIds, LAMBDA i : db[i].present /\ db[i].status = status)

get_media_ready_for_nas_sync(db) ==
    SelectSeq(RowIds, LAMBDA i : db[i].present /\ ReadyForNasSync(db[i]))

get_media_ready_for_compression(db) ==
    SelectSeq(RowIds, LAMBDA i : db[i].present /\ ReadyForCompression(db[i]))

\* the cleanup gate without the line `AND synced_nas = 'yes'`
get_media_ready_for_cleanup_no_nas(db) ==
    SelectSeq(RowIds, LAMBDA i : /\ db[i].present
                                  /\ db[i].status = "downloaded"
                                  /\ db[i].synced_google = "yes"
                                  /\ db[i].album_moved = 0)

get_media_ready_for_cleanup(db) ==
    SelectSeq(RowIds, LAMBDA i : db[i].present /\ ReadyForCleanup(db[i]))

get_media_ready_for_deletion(db) ==
    SelectSeq(RowIds, LAMBDA i : db[i].present /\ ReadyForDeletion(db[i]))

\* ------------------------------------------------------------------- state
VARIABLES
    media,      \* committed rows of table media, by icloud_id
    pstatus,    \* committed rows of table pipeline_status, oldest first
    fs,         \* where the local file is: "orig" (at local_path), "processed",
                \* "pending" (delete_pending folder) or "gone"
    nas,        \* the NAS copy: "none", "ok" (same size as source), "bad"
    album,      \* the photo is in the iCloud delete-pending album
    pc,         \* "idle", "loop", "files", "end", "done"; "queried" after a lone gate query
    dry_run,    \* args.dry_run
    stages,     \* the rest of the requested stage list
    cur,        \* the stage whose module.main() is running
    batch,      \* the rest of the list the gate query returned
    attempt,    \* index of the retry loop for Head(batch)
    results,    \* the batch's counters
    run,        \* run_pipeline's results dict
    notes,      \* the send_* calls of this run, in order
    writes,     \* statements on media executed by the last step
    calls,      \* executor invocations for the file in progress or just finished
    last,       \* the file the last step finished, and how
    exit_code,  \* main()'s return value, -1 while running
    resumed,    \* the interruptions so far, and the file whose stage had just
                \* succeeded when the last one came
    disk,       \* byte size of the file at local_path, in percent of the download
    executed,   \* step-based orchestrator: the steps whose script subprocess.run
                \* has executed, in order
    copied,     \* shutil.copy2 was called on the NAS by the last step
    dberr       \* the kinds of statement ("read", "write") on which a DatabaseManager
                \* method has caught and logged an sqlite3.Error in this run

vars == <<media, pstatus, fs, nas, album, pc, dry_run, stages, cur, batch,
          attempt, results, run, notes, writes, calls, last, exit_code, dberr, resumed, disk, copied, executed>>

NoResults == [total |-> 0, successful |-> 0, failed |-> 0, skipped |-> 0]

NoLast == [id |-> 0, outcome |-> "none", exhausted |-> FALSE]

NoResume == [n |-> 0, stage |-> "none", id |-> 0]

\* the rows, files and copies a run can find: written by earlier runs, by the
\* legacy scripts on the same media.db (media_db.py, sync_pixel.py) and by
\* whoever removed a file
FileCase(row, f, n, a) == [row |-> row, fs |-> f, nas |-> n, album |-> a]

FileCases(i) ==
    { FileCase(NoRow, "gone", "none", FALSE),
      FileCase(Row(i, "NULL", "NULL", 0, "NULL", "NULL"), "orig", "none", FALSE),
      FileCase(Row(i, "NULL", "NULL", 0, "NULL", "NULL"), "gone", "none", FALSE),
      FileCase(Row(i, "yes", "NULL", 0, "NULL", "NULL"), "orig", "none", FALSE),
      FileCase(Row(i, "yes", "yes", 0, "NULL", "NULL"), "orig", "ok", FALSE),
      FileCase(Row(i, "yes", "yes", 0, "NULL", "NULL"), "gone", "ok", FALSE),
      FileCase(Row(i, "yes", "yes", 1, "NULL", "ts"), "pending", "ok", TRUE),
      FileCase(Row(i, "yes", "yes", 1, "yes", "ts"), "pending", "ok", FALSE) }

Init ==
    /\ \E c \in [IDs -> UNION {FileCases(i) : i \in IDs}] :
          /\ \A i \in IDs : c[i] \in FileCases(i)
          /\ media = [i \in IDs |-> c[i].row]
          /\ fs = [i \in IDs |-> c[i].fs]
          /\ nas = [i \in IDs |-> c[i].nas]
          /\ album = [i \in IDs |-> c[i].album]
    /\ pstatus = <<>>
    /\ pc = "idle"
    /\ dry_run = FALSE
    /\ stages = <<>>
    /\ cur = "none"
    /\ batch = <<>>
    /\ attempt = 0
    /\ results = NoResults
    /\ run = [stages |-> <<>>, overall_success |-> TRUE]
    /\ notes = <<>>
    /\ writes = <<>>
    /\ calls = 0
    /\ last = NoLast
    /\ exit_code = -1
    /\ dberr = {}
    /\ resumed = NoResume
    /\ disk = [i \in IDs |-> 100]
    /\ copied = FALSE
    /\ executed = <<>>

\* --------------------------------------------------------------- orchestrator
\* the lists argparse accepts for --stages, and None (all stages)
StageLists == UNION {[1..n -> StageNames] : n \in 1..MaxStages}

\* a list in the order the caller chose, here the stages back to front
Reverse(s) == [k \in 1..Len(s) |-> s[Len(s) + 1 - k]]

Requests == {StageOrder, Reverse(StageOrder)} \cup StageLists

Note(kind, stage, success) == [kind |-> kind, stage |-> stage, success |-> success]

StageResult(stage, success, dry, processed, failed, err) ==
    [stage |-> stage, success |-> success, dry_run |-> dry,
     files_processed |-> processed, files_failed |-> failed, error |-> err]

\* main() up to the first pass of the loop of run_pipeline
StartRun(req, dry, envOk) ==
    /\ pc = "idle"
    /\ dry_run' = dry
    /\ IF ~envOk
       THEN \* validate_environment() failed: return 1
            /\ pc' = "done"
            /\ exit_code' = 1
            /\ UNCHANGED <<stages, notes>>
       ELSE /\ pc' = "loop"
            /\ stages' = req
            /\ notes' = <<Note("start", "all", TRUE)>>
            /\ UNCHANGED exit_code
    /\ run' = [stages |-> <<>>, overall_success |-> TRUE]
    /\ writes' = <<>>
    /\ last' = NoLast
    /\ UNCHANGED <<media, pstatus, fs, nas, album, cur, batch, attempt, results, calls, dberr, resumed, disk>>
    /\ copied' = FALSE
    /\ UNCHANGED executed

\* run_stage with dry_run: returns before start_pipeline_stage
DryStage ==
    /\ pc = "loop"
    /\ stages # <<>>
    /\ dry_run
    /\ run' = [run EXCEPT !.stages = Append(@, StageResult(Head(stages), TRUE, TRUE, 0, 0, FALSE))]
    /\ notes' = Append(notes, Note("stage", Head(stages), TRUE))
    /\ stages' = Tail(stages)
    /\ writes' = <<>>
    /\ last' = NoLast
    /\ UNCHANGED <<media, pstatus, fs, nas, album, pc, dry_run, cur, batch, attempt,
                   results, calls, exit_code, dberr, resumed, disk>>
    /\ copied' = FALSE
    /\ UNCHANGED executed

\* start_pipeline_stage: INSERT INTO pipeline_status ... ; conn.commit()
start_pipeline_stage(ps, stage) ==
    Append(ps, [stage_name |-> stage, status |-> "running",
                files_processed |-> 0, files_failed |-> 0, error |-> FALSE])

\* complete_pipeline_stage: UPDATE pipeline_status ... WHERE id = ?; conn.commit()
complete_pipeline_stage(ps, stage_id, processed, failed, err) ==
    [ps EXCEPT ![stage_id] = [@ EXCEPT !.status = "completed", !.files_processed = processed,
                                       !.files_failed = failed, !.error = err]]

\* run_pipeline without the break on a failed stage
AfterStage_continue(success) == "loop"

\* run_pipeline, `if not stage_result['success']: ... break`
AfterStage(success) == IF success THEN "loop" ELSE "end"

\* run_pipeline after a stage that sends the stage notification only
StageNotes_no_error(stage, success) == <<Note("stage", stage, success)>>

\* run_pipeline after run_stage returned: send_stage_complete, and
\* send_pipeline_error for a failed stage
StageNotes(stage, success) ==
    IF success
    THEN <<Note("stage", stage, TRUE)>>
    ELSE <<Note("stage", stage, FALSE), Note("error", stage, FALSE)>>

\* the rest of run_stage after module.main() returned or raised, and the
\* rest of the loop body of run_pipeline
StageDone(ps, stage, success, raised) ==
    LET processed == IF raised THEN 0 ELSE 1
        res == StageResult(stage, success, FALSE, processed, 0, raised)
    IN /\ pstatus' = complete_pipeline_stage(ps, Len(ps), processed, 0, raised)
       /\ run' = [stages |-> Append(run.stages, res),
                  overall_success |-> run.overall_success /\ success]
       /\ notes' = notes \o StageNotes(stage, success)
       /\ pc' = AfterStage(success)
       /\ stages' = Tail(stages)
       /\ cur' = "none"

\* after the loop: summary, send_pipeline_complete, main()'s return value
FinishRun ==
    /\ \/ pc = "loop" /\ stages = <<>>
       \/ pc = "end"
    /\ notes' = Append(notes, Note("complete", "all", run.overall_success))
    /\ exit_code' = IF run.overall_success THEN 0 ELSE 1
    /\ pc' = "done"
    /\ writes' = <<>>
    /\ last' = NoLast
    /\ UNCHANGED <<media, pstatus, fs, nas, album, dry_run, stages, cur, batch, attempt,
                   results, run, calls, dberr, resumed, disk>>
    /\ copied' = FALSE
    /\ UNCHANGED executed

\* ------------------------------------------------------------ batch stages
GateOf(stage, db) ==
    CASE stage = "nas_sync" -> get_media_ready_for_nas_sync(db)
      [] stage = "compression" -> get_media_ready_for_compression(db)
      [] stage = "cleanup" -> get_media_ready_for_cleanup(db)
      [] stage = "deletion" -> get_media_ready_for_deletion(db)

\* run_stage up to the gate query of module.main(): start_pipeline_stage,
\* validate_config / init_database / connection checks, then the SELECT
StageBegin(v) ==
    LET stage == Head(stages)
        ps == start_pipeline_stage(pstatus, stage)
        files == GateOf(stage, media)
    IN /\ pc = "loop"
       /\ stages # <<>>
       /\ ~dry_run
       /\ stage \in BatchStages
       /\ writes' = <<>>
       /\ last' = NoLast
       /\ IF v # "ok" \/ files = <<>>
          THEN /\ StageDone(ps, stage, v = "ok", v = "raise")
               /\ results' = NoResults
               /\ UNCHANGED <<batch, attempt, calls>>
          ELSE /\ pstatus' = ps
               /\ pc' = "files"
               /\ cur' = stage
               /\ batch' = files
               /\ attempt' = 0
               /\ results' = [NoResults EXCEPT !.total = Len(files)]
               /\ calls' = 0
               /\ UNCHANGED <<run, notes, stages>>
       /\ UNCHANGED <<media, fs, nas, album, dry_run, exit_code, dberr, resumed, disk>>
       /\ copied' = FALSE
       /\ UNCHANGED executed

\* main() after the batch: success = results['failed'] == 0
BatchEnd ==
    /\ pc = "files"
    /\ batch = <<>>
    /\ StageDone(pstatus, cur, results.failed = 0, FALSE)
    /\ writes' = <<>>
    /\ last' = NoLast
    /\ UNCHANGED <<media, fs, nas, album, dry_run, batch, attempt, results, calls, exit_code, dberr, resumed, disk>>
    /\ copied' = FALSE
    /\ UNCHANGED executed

\* a batch loop whose skip branch goes on without `results['skipped'] += 1`
count_file_no_skip(r, outcome) ==
    CASE outcome = "ok" -> [r EXCEPT !.successful = @ + 1]
      [] outcome = "failed" -> [r EXCEPT !.failed = @ + 1]
      [] outcome = "skipped" -> r

\* results['successful'] += 1, results['failed'] += 1 or results['skipped'] += 1
count_file(r, outcome) ==
    CASE outcome = "ok" -> [r EXCEPT !.successful = @ + 1]
      [] outcome = "failed" -> [r EXCEPT !.failed = @ + 1]
      [] outcome = "skipped" -> [r EXCEPT !.skipped = @ + 1]

\* the loop body is left for the next file
Conclude(i, outcome, exhausted, db, stmts) ==
    /\ batch' = Tail(batch)
    /\ attempt' = 0
    /\ results' = count_file(results, outcome)
    /\ last' = [id |-> i, outcome |-> outcome, exhausted |-> exhausted]
    /\ writes' = stmts
    /\ media' = db

\* a failed pass of `for attempt in range(self.max_retries)`: sleep and go
\* on, or after the last pass count the file failed and increment_error_count
FailAttempt(i, db, stmts) ==
    IF attempt < max_retries - 1
    THEN /\ attempt' = attempt + 1
         /\ last' = NoLast
         /\ writes' = stmts
         /\ media' = db
         /\ UNCHANGED <<batch, results>>
    ELSE LET e == increment_error_count(db, i)
         IN Conclude(i, "failed", TRUE, e.db, Append(stmts, e.stmt))

InBatch(stage) == pc = "files" /\ cur = stage /\ batch # <<>>

\* sync_file_to_nas without the check for a file that is already on the NAS
sync_file_to_nas_always_copy(exists, dest, o) ==
    IF ~exists \/ o = "raise"
    THEN [ret |-> FALSE, nas |-> dest, copied |-> FALSE]
    ELSE [ret |-> o = "ok",
          nas |-> IF o = "ok" THEN "ok" ELSE IF o = "mismatch" THEN "none" ELSE "bad",
          copied |-> TRUE]

\* sync_file_to_nas without `os.remove(nas_path)` after the failed size check
sync_file_to_nas_keep_failed_copy(exists, dest, o) ==
    IF ~exists \/ o = "raise"
    THEN [ret |-> FALSE, nas |-> dest, copied |-> FALSE]
    ELSE IF dest = "ok"
    THEN [ret |-> TRUE, nas |-> dest, copied |-> FALSE]
    ELSE [ret |-> o = "ok",
          nas |-> IF o = "ok" THEN "ok" ELSE "bad",
          copied |-> TRUE]

\* NASSyncManager.sync_file_to_nas: exists = the source is at local_path, dest
\* the file at nas_path ("ok" = there with the size of the source), o what
\* makedirs / copy2 / the size check after the copy did; copied = shutil.copy2
\* was called
sync_file_to_nas(exists, dest, o) ==
    IF ~exists \/ o = "raise"
    THEN [ret |-> FALSE, nas |-> dest, copied |-> FALSE]
    ELSE IF dest = "ok"
    THEN [ret |-> TRUE, nas |-> dest, copied |-> FALSE]
    ELSE [ret |-> o = "ok",
          nas |-> IF o = "ok" THEN "ok" ELSE IF o = "mismatch" THEN "none" ELSE "bad",
          copied |-> TRUE]

\* NASSyncManager.sync_batch_to_nas, one pass of the retry loop with
\* sync_file_to_nas: o is what makedirs / copy2 / the size check did
NasAttempt(o) ==
    LET i == Head(batch)
        s == sync_file_to_nas(fs[i] = "orig", nas[i], o)
        ret == s.ret
        nas2 == s.nas
        m == mark_synced_nas(media, i)
    IN /\ InBatch("nas_sync")
       /\ IF media[i].synced_nas = "yes"
          THEN /\ Conclude(i, "skipped", FALSE, media, <<>>)
               /\ calls' = 0
               /\ UNCHANGED <<fs, nas>>
          ELSE /\ calls' = IF attempt = 0 THEN 1 ELSE calls + 1
               /\ nas' = [nas EXCEPT ![i] = nas2]
               /\ IF ret /\ m.ok
                  THEN /\ Conclude(i, "ok", FALSE, m.db, <<m.stmt>>)
                       /\ fs' = IF delete_after_sync THEN [fs EXCEPT ![i] = "gone"] ELSE fs
                  ELSE /\ FailAttempt(i, IF ret THEN m.db ELSE media, IF ret THEN <<m.stmt>> ELSE <<>>)
                       /\ UNCHANGED fs
       /\ UNCHANGED <<pstatus, album, pc, dry_run, stages, cur, run, notes, exit_code, dberr, resumed, disk>>
       /\ copied' = (media[i].synced_nas # "yes" /\ s.copied)
       /\ UNCHANGED executed

\* CompressionManager.compress_batch, one file: no retry loop; new_size is
\* what compress_file returned, 0 for None.  compress_image / compress_video
\* rewrite the file at file_path in place and put the backup back on failure
CompressFile(new_size) ==
    LET i == Head(batch)
        z == set_initial_size(media, i, disk[i])
        c == mark_compressed(z.db, i, new_size)
        e == increment_error_count(z.db, i)
    IN /\ InBatch("compression")
       /\ IF fs[i] # "orig"
          THEN /\ Conclude(i, "skipped", FALSE, media, <<>>)
               /\ calls' = 0
               /\ UNCHANGED disk
          ELSE /\ calls' = IF attempt = 0 THEN 1 ELSE calls + 1
               /\ disk' = IF new_size # 0 THEN [disk EXCEPT ![i] = new_size] ELSE disk
               /\ IF new_size # 0 /\ c.ok
                  THEN Conclude(i, "ok", FALSE, c.db, <<z.stmt, c.stmt>>)
                  ELSE IF new_size # 0
                  THEN Conclude(i, "failed", FALSE, c.db, <<z.stmt, c.stmt>>)
                  ELSE Conclude(i, "failed", TRUE, e.db, <<z.stmt, e.stmt>>)
       /\ UNCHANGED <<pstatus, fs, nas, album, pc, dry_run, stages, cur, run, notes, exit_code, dberr, resumed>>
       /\ copied' = FALSE
       /\ UNCHANGED executed

\* ICloudCleanupManager.cleanup_file up to the album add: at is where the
\* file is, o what the two moves and the album add did.  The file is looked
\* for at file_info['local_path'] only; the rest runs if it is there
cleanup_file(at, o) ==
    LET exists == at = "orig"
    IN [fs |-> IF ~exists \/ o = "move_raise" THEN at
               ELSE IF o = "move2_raise" THEN "processed"
               ELSE "pending",
        raised |-> exists /\ o \in {"move_raise", "move2_raise"},
        added |-> exists /\ o = "ok"]

\* ICloudCleanupManager.cleanup_batch, one pass of the retry loop with
\* cleanup_file: o is what the two moves and the album add did
CleanupAttempt(o) ==
    LET i == Head(batch)
        c == cleanup_file(fs[i], o)
        fs2 == c.fs
        raised == c.raised
        x == increment_error_count(media, i)
        m == mark_album_moved(media, i)
        added == c.added
    IN /\ InBatch("cleanup")
       /\ IF media[i].album_moved = 1
          THEN /\ Conclude(i, "skipped", FALSE, media, <<>>)
               /\ calls' = 0
               /\ UNCHANGED <<fs, album>>
          ELSE /\ calls' = IF attempt = 0 THEN 1 ELSE calls + 1
               /\ fs' = [fs EXCEPT ![i] = fs2]
               /\ album' = IF added THEN [album EXCEPT ![i] = TRUE] ELSE album
               /\ IF added /\ m.ok
                  THEN Conclude(i, "ok", FALSE, m.db, <<m.stmt>>)
                  ELSE IF added
                  THEN FailAttempt(i, m.db, <<m.stmt>>)
                  ELSE IF raised
                  THEN FailAttempt(i, x.db, <<x.stmt>>)
                  ELSE FailAttempt(i, media, <<>>)
       /\ UNCHANGED <<pstatus, nas, pc, dry_run, stages, cur, run, notes, exit_code, dberr, resumed, disk>>
       /\ copied' = FALSE
       /\ UNCHANGED executed

\* ICloudDeletionManager.delete_batch, one pass of the retry loop with
\* delete_file: ic is what the album lookup and photo.delete() did, lo what
\* os.remove did
DeleteAttempt(ic, lo) ==
    LET i == Head(batch)
        icloud_success == album[i] /\ ic = "ok"
        exists == fs[i] = "orig"
        local_success == IF exists THEN lo = "ok" ELSE TRUE
        m == mark_deleted_icloud(media, i)
    IN /\ InBatch("deletion")
       /\ IF media[i].deleted_icloud = "yes"
          THEN /\ Conclude(i, "skipped", FALSE, media, <<>>)
               /\ calls' = 0
               /\ UNCHANGED <<fs, album>>
          ELSE /\ calls' = IF attempt = 0 THEN 1 ELSE calls + 1
               /\ album' = IF icloud_success THEN [album EXCEPT ![i] = FALSE] ELSE album
               /\ fs' = IF exists /\ lo = "ok" THEN [fs EXCEPT ![i] = "gone"] ELSE fs
               /\ IF icloud_success /\ local_success
                  THEN IF m.ok
                       THEN Conclude(i, "ok", FALSE, m.db, <<m.stmt>>)
                       ELSE FailAttempt(i, m.db, <<m.stmt>>)
                  ELSE FailAttempt(i, media, <<>>)
       /\ UNCHANGED <<pstatus, nas, pc, dry_run, stages, cur, run, notes, exit_code, dberr, resumed, disk>>
       /\ copied' = FALSE
       /\ UNCHANGED executed

\* ------------------------------------------------------- single-step stages
RECURSIVE scan_and_update_db(_, _)
\* ICloudSyncManager.scan_and_update_db: add_media_record(icloud_id = fname)
\* for every file found under the download directory
scan_and_update_db(db, files) ==
    IF files = <<>>
    THEN [db |-> db, stmts |-> <<>>]
    ELSE LET a == add_media_record(db, Head(files))
             rest == scan_and_update_db(a.db, Tail(files))
         IN [db |-> rest.db, stmts |-> <<a.stmt>> \o rest.stmts]

\* run_stage for icloud_sync, with sync_icloud.main(): v is what validation,
\* icloudpd and the scan did, dl the files icloudpd newly downloaded
IcloudSyncStage(v, dl) ==
    LET stage == Head(stages)
        ps == start_pipeline_stage(pstatus, stage)
        fs2 == [i \in IDs |-> IF i \in dl THEN "orig" ELSE fs[i]]
        found == SelectSeq(RowIds, LAMBDA i : fs2[i] = "orig")
        scan == scan_and_update_db(media, found)
        scanned == v \in {"ok", "scan_err"}
    IN /\ pc = "loop"
       /\ stages # <<>>
       /\ ~dry_run
       /\ stage = "icloud_sync"
       /\ dl \subseteq {i \in IDs : fs[i] = "gone" /\ ~media[i].present}
       /\ ~scanned => dl = {}
       /\ fs' = fs2
       /\ media' = IF scanned THEN scan.db ELSE media
       /\ writes' = IF scanned THEN scan.stmts ELSE <<>>
       /\ StageDone(ps, stage, v = "ok", v = "raise")
       /\ last' = NoLast
       /\ UNCHANGED <<nas, album, dry_run, batch, attempt, results, calls, exit_code, dberr, resumed, disk>>
       /\ copied' = FALSE
       /\ UNCHANGED executed

\* mark_files_synced's search without the `break`: the last row with that filename
matching_file_last(db, filename) ==
    LET hits == SelectSeq(get_media_by_status(db, "downloaded"), LAMBDA i : db[i].filename = filename)
    IN IF hits = <<>> THEN 0 ELSE hits[Len(hits)]

\* the first row of get_media_by_status('downloaded') with that filename, 0 if none
matching_file(db, filename) ==
    LET hits == SelectSeq(get_media_by_status(db, "downloaded"), LAMBDA i : db[i].filename = filename)
    IN IF hits = <<>> THEN 0 ELSE Head(hits)

RECURSIVE mark_files_synced(_, _)
\* PixelSyncManager.mark_files_synced
mark_files_synced(db, synced_files) ==
    IF synced_files = <<>>
    THEN [db |-> db, stmts |-> <<>>]
    ELSE LET i == matching_file(db, Head(synced_files))
             skip == i = 0 \/ db[i].synced_google = "yes"
             m == mark_synced_google(db, i)
             rest == mark_files_synced(IF skip THEN db ELSE m.db, Tail(synced_files))
         IN [db |-> rest.db, stmts |-> (IF skip THEN <<>> ELSE <<m.stmt>>) \o rest.stmts]

\* run_stage for pixel_sync, with bulk_pixel_sync.main(): v is what validation
\* and the Syncthing connection did, synced the fully synced filenames
PixelSyncStage(v, synced) ==
    LET stage == Head(stages)
        ps == start_pipeline_stage(pstatus, stage)
        names == SelectSeq(RowIds, LAMBDA n : n \in synced)
        marked == mark_files_synced(media, names)
    IN /\ pc = "loop"
       /\ stages # <<>>
       /\ ~dry_run
       /\ stage = "pixel_sync"
       /\ v # "ok" => synced = {}
       /\ media' = IF v = "ok" THEN marked.db ELSE media
       /\ writes' = IF v = "ok" THEN marked.stmts ELSE <<>>
       /\ StageDone(ps, stage, v = "ok", v = "raise")
       /\ last' = NoLast
       /\ UNCHANGED <<fs, nas, album, dry_run, batch, attempt, results, calls, exit_code, dberr, resumed, disk>>
       /\ copied' = FALSE
       /\ UNCHANGED executed

\* ------------------------------------------------- record store unavailable
\* the `except sqlite3.Error` branch of a DatabaseManager method: the error is
\* logged, nothing is changed, an update returns False and a query returns []
sqlite_error(db, id, field, value) ==
    [ok |-> FALSE, db |-> db, stmt |-> Stmt(id, field, value, db, FALSE)]

\* run_stage of a batch stage whose gate query hits sqlite3.Error after
\* init_database went through: the query returns [], main() logs that no
\* file is ready and returns True
GateQueryDbError ==
    LET stage == Head(stages)
        ps == start_pipeline_stage(pstatus, stage)
    IN /\ pc = "loop"
       /\ stages # <<>>
       /\ ~dry_run
       /\ stage \in BatchStages
       /\ StageDone(ps, stage, TRUE, FALSE)
       /\ results' = NoResults
       /\ writes' = <<>>
       /\ last' = NoLast
       /\ dberr' = dberr \cup {"read"}
       /\ UNCHANGED <<media, fs, nas, album, dry_run, batch, attempt, calls, exit_code, resumed, disk>>
       /\ copied' = FALSE
       /\ UNCHANGED executed

\* sync_batch_to_nas, one pass of the retry loop in which sync_file_to_nas
\* returned True and mark_synced_nas hit sqlite3.Error: "Failed to update
\* database", then the next pass or the failed count
NasAttemptDbError ==
    LET i == Head(batch)
        m == sqlite_error(media, i, "synced_nas", "yes")
    IN /\ InBatch("nas_sync")
       /\ media[i].synced_nas # "yes"
       /\ fs[i] = "orig"
       /\ calls' = IF attempt = 0 THEN 1 ELSE calls + 1
       /\ nas' = [nas EXCEPT ![i] = "ok"]
       /\ FailAttempt(i, m.db, <<m.stmt>>)
       /\ dberr' = dberr \cup {"write"}
       /\ UNCHANGED <<pstatus, fs, album, pc, dry_run, stages, cur, run, notes, exit_code, resumed, disk>>
       /\ copied' = (nas[i] # "ok")
       /\ UNCHANGED executed

\* run_stage for pixel_sync in which every mark_synced_google of
\* mark_files_synced hit sqlite3.Error: the error is logged per file and
\* sync_batch still sets results['success'] = True
PixelSyncDbError(synced) ==
    LET stage == Head(stages)
        ps == start_pipeline_stage(pstatus, stage)
        names == SelectSeq(RowIds, LAMBDA n : n \in synced)
        todo == SelectSeq(names, LAMBDA n : /\ matching_file(media, n) # 0
                                            /\ media[matching_file(media, n)].synced_google # "yes")
    IN /\ pc = "loop"
       /\ stages # <<>>
       /\ ~dry_run
       /\ stage = "pixel_sync"
       /\ todo # <<>>
       /\ writes' = [k \in 1..Len(todo) |->
                        sqlite_error(media, matching_file(media, todo[k]), "synced_google", "yes").stmt]
       /\ StageDone(ps, stage, TRUE, FALSE)
       /\ last' = NoLast
       /\ dberr' = dberr \cup {"write"}
       /\ UNCHANGED <<media, fs, nas, album, dry_run, batch, attempt, results, calls, exit_code, resumed, disk>>
       /\ copied' = FALSE
       /\ UNCHANGED executed

\* ------------------------------------------------------------ specification
Next ==
    \/ \E req \in Requests, dry \in BOOLEAN, envOk \in BOOLEAN : StartRun(req, dry, envOk)
    \/ DryStage
    \/ \E v \in {"ok", "invalid", "raise"} : StageBegin(v)
    \/ \E o \in {"ok", "mismatch", "partial", "raise"} : NasAttempt(o)
    \/ \E new_size \in {0, 50, 97} : CompressFile(new_size)
    \/ \E o \in {"ok", "move_raise", "move2_raise", "album_fail"} : CleanupAttempt(o)
    \/ \E ic \in {"ok", "fail"}, lo \in {"ok", "fail"} : DeleteAttempt(ic, lo)
    \/ BatchEnd
    \/ \E v \in {"ok", "invalid", "raise", "scan_err"}, dl \in SUBSET IDs : IcloudSyncStage(v, dl)
    \/ \E v \in {"ok", "invalid", "raise"}, synced \in SUBSET IDs : PixelSyncStage(v, synced)
    \/ FinishRun

Spec == Init /\ [][Next]_vars

\* ------------------------------------------------------ gate queries alone
\* every row the columns of media allow for one icloud_id: each stage flag
\* unset or done, and the fully synced row under another status
AllRows(i) ==
    {Row(i, sg, sn, am, di, lc) : sg \in {"NULL", "yes"}, sn \in {"NULL", "yes"}, am \in {0, 1},
                                  di \in {"NULL", "yes"}, lc \in {"NULL", "ts"}}
    \cup {[Row(i, "yes", "yes", 0, "NULL", lc) EXCEPT !.status = "other"] : lc \in {"NULL", "ts"}}
    \cup {NoRow}

InitGate ==
    /\ media \in [IDs -> UNION {AllRows(i) : i \in IDs}]
    /\ \A i \in IDs : media[i] \in AllRows(i)
    /\ fs = [i \in IDs |-> "orig"]
    /\ nas = [i \in IDs |-> "none"]
    /\ album = [i \in IDs |-> FALSE]
    /\ pstatus = <<>>
    /\ pc = "idle"
    /\ dry_run = FALSE
    /\ stages = <<>>
    /\ cur = "none"
    /\ batch = <<>>
    /\ attempt = 0
    /\ results = NoResults
    /\ run = [stages |-> <<>>, overall_success |-> TRUE]
    /\ notes = <<>>
    /\ writes = <<>>
    /\ calls = 0
    /\ last = NoLast
    /\ exit_code = -1
    /\ dberr = {}
    /\ resumed = NoResume
    /\ disk = [i \in IDs |-> 100]
    /\ copied = FALSE
    /\ executed = <<>>

\* <manager>.get_files_ready_for_*(): the gate query of one stage on the table
GateQuery(stage) ==
    /\ pc = "idle"
    /\ pc' = "queried"
    /\ cur' = stage
    /\ batch' = GateOf(stage, media)
    /\ UNCHANGED <<media, pstatus, fs, nas, album, dry_run, stages, attempt, results, run,
                   notes, writes, calls, last, exit_code, dberr, resumed, disk>>
    /\ copied' = FALSE
    /\ UNCHANGED executed

NextGate == \E stage \in BatchStages : GateQuery(stage)

SpecGate == InitGate /\ [][NextGate]_vars

\* ------------------------------------------------- replica marking alone
\* rows as any writer of media.db can leave them: filename is not unique in
\* the schema (media_db.add_media_record takes filename and icloud_id apart),
\* so two icloud_ids may carry one filename
PixelRows(i) ==
    {[Row(i, sg, "NULL", 0, "NULL", "NULL") EXCEPT !.filename = f, !.status = st] :
        sg \in {"NULL", "yes"}, f \in IDs, st \in {"downloaded", "other"}}
    \cup {NoRow}

InitPixel ==
    /\ media \in [IDs -> UNION {PixelRows(i) : i \in IDs}]
    /\ \A i \in IDs : media[i] \in PixelRows(i)
    /\ fs = [i \in IDs |-> "orig"]
    /\ nas = [i \in IDs |-> "none"]
    /\ album = [i \in IDs |-> FALSE]
    /\ pstatus = <<>>
    /\ pc = "idle"
    /\ dry_run = FALSE
    /\ stages = <<>>
    /\ cur = "none"
    /\ batch = <<>>
    /\ attempt = 0
    /\ results = NoResults
    /\ run = [stages |-> <<>>, overall_success |-> TRUE]
    /\ notes = <<>>
    /\ writes = <<>>
    /\ calls = 0
    /\ last = NoLast
    /\ exit_code = -1
    /\ dberr = {}
    /\ resumed = NoResume
    /\ disk = [i \in IDs |-> 100]
    /\ copied = FALSE
    /\ executed = <<>>

\* what Syncthing's db/status can say of a name: not listed, or listed with
\* its two version markers
FileStatus == {"absent", "equal", "behind"}

\* AuthenticationManager.get_syncthing_fully_synced_files: the names whose
\* globalVersion equals localVersion, in the order of the listing
get_syncthing_fully_synced_files(files_data) ==
    SelectSeq(RowIds, LAMBDA n : files_data[n] = "equal")

\* PixelSyncManager.mark_files_synced(get_fully_synced_files()); the list of
\* names is kept in batch
MarkFilesSynced(files_data) ==
    LET names == get_syncthing_fully_synced_files(files_data)
        marked == mark_files_synced(media, names)
    IN /\ pc = "idle"
       /\ pc' = "queried"
       /\ cur' = "pixel_sync"
       /\ batch' = names
       /\ media' = marked.db
       /\ writes' = marked.stmts
       /\ UNCHANGED <<pstatus, fs, nas, album, dry_run, stages, attempt, results, run,
                      notes, calls, last, exit_code, dberr, resumed, disk, copied, executed>>

NextPixel == \E files_data \in [IDs -> FileStatus] : MarkFilesSynced(files_data)

SpecPixel == InitPixel /\ [][NextPixel]_vars

\* ------------------------------------------- rows with a recorded size
\* the runs of Spec on tables in which a row may already carry an
\* initial_size (80), with the file at local_path at its downloaded size
SizeCases(i) ==
    { FileCase(NoRow, "gone", "none", FALSE),
      FileCase(Row(i, "NULL", "NULL", 0, "NULL", "NULL"), "orig", "none", FALSE),
      FileCase(Row(i, "yes", "yes", 0, "NULL", "NULL"), "orig", "ok", FALSE),
      FileCase([Row(i, "yes", "yes", 0, "NULL", "NULL") EXCEPT !.initial_size = 80], "orig", "ok", FALSE),
      FileCase([Row(i, "yes", "yes", 1, "NULL", "ts") EXCEPT !.initial_size = 80], "pending", "ok", TRUE) }

InitSize ==
    /\ \E c \in [IDs -> UNION {SizeCases(i) : i \in IDs}] :
          /\ \A i \in IDs : c[i] \in SizeCases(i)
          /\ media = [i \in IDs |-> c[i].row]
          /\ fs = [i \in IDs |-> c[i].fs]
          /\ nas = [i \in IDs |-> c[i].nas]
          /\ album = [i \in IDs |-> c[i].album]
    /\ pstatus = <<>>
    /\ pc = "idle"
    /\ dry_run = FALSE
    /\ stages = <<>>
    /\ cur = "none"
    /\ batch = <<>>
    /\ attempt = 0
    /\ results = NoResults
    /\ run = [stages |-> <<>>, overall_success |-> TRUE]
    /\ notes = <<>>
    /\ writes = <<>>
    /\ calls = 0
    /\ last = NoLast
    /\ exit_code = -1
    /\ dberr = {}
    /\ resumed = NoResume
    /\ disk = [i \in IDs |-> 100]
    /\ copied = FALSE
    /\ executed = <<>>

SpecSize == InitSize /\ [][Next]_vars

\* ------------------------------------------- step-based orchestrator
\* simple-media-sync/workflow_orchestrator.py.  Here fs is the workflow folder
\* a file is in ("gone": not on the local disk), stages the step numbers
\* still to run; the step scripts keep their records elsewhere, media is left
\* alone.
\* WorkflowOrchestrator.workflow_steps
workflow_steps == 1..8

\* what the script of a step does to the files it works on (S, those of the
\* files in its source folder that it gets through)
step_effect(step, S, f, n, d) ==
    LET from == CASE step = 1 -> {"gone"}
                  [] step = 2 -> {"incoming"}
                  [] step \in {4, 5} -> {"pixel_sync"}
                  [] step \in {6, 7} -> {"processing"}
                  [] step = 8 -> {"pixel_sync", "processing", "icloud_delete"}
                  [] OTHER -> {}
        to == CASE step = 1 -> "incoming"
                [] step = 2 -> "pixel_sync"
                [] step = 5 -> "processing"
                [] step = 7 -> "icloud_delete"
                [] step = 8 -> "gone"
                [] OTHER -> "stay"
        hit == {i \in S : f[i] \in from}
    IN [fs |-> [i \in IDs |-> IF i \in hit /\ to # "stay" THEN to ELSE f[i]],
        nas |-> [i \in IDs |-> IF i \in hit /\ step = 4 THEN "ok" ELSE n[i]],
        disk |-> [i \in IDs |-> IF i \in hit /\ step = 6 THEN 50 ELSE d[i]]]

InitWorkflow ==
    /\ media = [i \in IDs |-> NoRow]
    /\ fs \in [IDs -> {"gone", "incoming"}]
    /\ nas = [i \in IDs |-> "none"]
    /\ album = [i \in IDs |-> FALSE]
    /\ pstatus = <<>>
    /\ pc = "idle"
    /\ dry_run = FALSE
    /\ stages = <<>>
    /\ cur = "none"
    /\ batch = <<>>
    /\ attempt = 0
    /\ results = NoResults
    /\ run = [stages |-> <<>>, overall_success |-> TRUE]
    /\ notes = <<>>
    /\ writes = <<>>
    /\ calls = 0
    /\ last = NoLast
    /\ exit_code = -1
    /\ dberr = {}
    /\ resumed = NoResume
    /\ disk = [i \in IDs |-> 100]
    /\ copied = FALSE
    /\ executed = <<>>

\* main() with --workflow --start N --end M [--dry-run], or with --step N
\* (start_step = end_step = N): up to the first run_step
StartWorkflow(start_step, end_step, dry) ==
    /\ pc = "idle"
    /\ start_step <= end_step
    /\ pc' = "loop"
    /\ dry_run' = dry
    /\ stages' = [k \in 1..(end_step - start_step + 1) |-> start_step + k - 1]
    /\ UNCHANGED <<media, pstatus, fs, nas, album, cur, batch, attempt, results, run, notes,
                   writes, calls, last, exit_code, dberr, resumed, disk, copied, executed>>

\* WorkflowOrchestrator.run_step(step_number, dry_run): subprocess.run of the
\* step script, whose return code is rc; the parameter dry_run is not read
RunStep(rc, S) ==
    LET step == Head(stages)
        e == step_effect(step, S, fs, nas, disk)
    IN /\ pc = "loop"
       /\ stages # <<>>
       /\ executed' = Append(executed, step)
       /\ fs' = e.fs
       /\ nas' = e.nas
       /\ disk' = e.disk
       /\ IF rc = 0
          THEN /\ stages' = Tail(stages)
               /\ UNCHANGED <<pc, exit_code>>
          ELSE /\ pc' = "done"
               /\ exit_code' = 1
               /\ UNCHANGED stages
       /\ UNCHANGED <<media, pstatus, album, dry_run, cur, batch, attempt, results, run, notes,
                      writes, calls, last, dberr, resumed, copied>>

\* run_workflow after the last step: return True, main() returns 0
FinishWorkflow ==
    /\ pc = "loop"
    /\ stages = <<>>
    /\ pc' = "done"
    /\ exit_code' = 0
    /\ UNCHANGED <<media, pstatus, fs, nas, album, dry_run, stages, cur, batch, attempt, results,
                   run, notes, writes, calls, last, dberr, resumed, disk, copied, executed>>

NextWorkflow ==
    \/ \E start_step, end_step \in workflow_steps, dry \in BOOLEAN :
          StartWorkflow(start_step, end_step, dry)
    \/ \E rc \in {0, 1}, S \in SUBSET IDs : RunStep(rc, S)
    \/ FinishWorkflow

SpecWorkflow == InitWorkflow /\ [][NextWorkflow]_vars

\* ------------------------------------------------------ interrupted runs
\* the process is interrupted or killed between two steps: KeyboardInterrupt
\* is no Exception, so it passes run_stage and run_pipeline and main() returns
\* 130; the pipeline_status row of the running stage stays 'running'
Interrupt ==
    /\ pc \in {"loop", "files"}
    /\ resumed.n < MaxInterrupts
    /\ pc' = "done"
    /\ exit_code' = 130
    /\ resumed' = IF pc = "files" /\ last.outcome = "ok"
                  THEN [n |-> resumed.n + 1, stage |-> cur, id |-> last.id]
                  ELSE [n |-> resumed.n + 1, stage |-> "none", id |-> 0]
    /\ writes' = <<>>
    /\ last' = NoLast
    /\ UNCHANGED <<media, pstatus, fs, nas, album, dry_run, stages, cur, batch, attempt,
                   results, run, notes, calls, dberr, disk>>
    /\ copied' = FALSE
    /\ UNCHANGED executed

\* the command is invoked again: a new process, a new PipelineOrchestrator,
\* the same media.db, directories, NAS and album
Reinvoke ==
    /\ pc = "done"
    /\ exit_code = 130
    /\ pc' = "idle"
    /\ exit_code' = -1
    /\ dry_run' = FALSE
    /\ stages' = <<>>
    /\ cur' = "none"
    /\ batch' = <<>>
    /\ attempt' = 0
    /\ results' = NoResults
    /\ run' = [stages |-> <<>>, overall_success |-> TRUE]
    /\ notes' = <<>>
    /\ writes' = <<>>
    /\ calls' = 0
    /\ last' = NoLast
    /\ dberr' = {}
    /\ UNCHANGED <<media, pstatus, fs, nas, album, resumed, disk>>
    /\ copied' = FALSE
    /\ UNCHANGED executed

NextResume ==
    \/ Next
    \/ Interrupt
    \/ Reinvoke

SpecResume == Init /\ [][NextResume]_vars

\* the same runs, with statements of the record store failing in between
NextDb ==
    \/ Next
    \/ GateQueryDbError
    \/ NasAttemptDbError
    \/ \E synced \in SUBSET IDs : PixelSyncDbError(synced)

SpecDb == Init /\ [][NextDb]_vars

\* ------------------------------------------------------------------ claims
StageFlags == {"synced_google", "synced_nas", "last_compressed", "album_moved", "deleted_icloud"}

\* the done value of a stage flag
IsDone(field, value) ==
    CASE field = "album_moved" -> value = 1
      [] field = "last_compressed" -> value # "NULL"
      [] OTHER -> value = "yes"

Gated(r) == r.album_moved = 1 => r.synced_google = "yes" /\ r.synced_nas = "yes"

\* C1: whatever stages ran and however their external actions went, every
\* record with album_moved = 1 has synced_google = 'yes' and synced_nas =
\* 'yes': in the committed table, and in the row every executed statement
\* left behind in its connection.
C1_ReadyForDeleteGated ==
    /\ \A i \in IDs : media[i].present => Gated(media[i])
    /\ \A k \in 1..Len(writes) : writes[k].ok => Gated(writes[k].row)

\* C1: the cleanup stage has executed its album_moved update on a record
C1_Witness ==
    \E k \in 1..Len(writes) :
        writes[k].field = "album_moved" /\ writes[k].ok /\ writes[k].row.album_moved = 1

\* C3: no step of any stage turns a stage flag that holds its done value
\* back to unset, neither in the committed table nor in the row a statement
\* of the step left behind in its connection.
C3_FlagsMonotone ==
    [][\A i \in IDs : \A f \in StageFlags :
          IsDone(f, media[i][f]) =>
             /\ IsDone(f, media'[i][f])
             /\ \A k \in 1..Len(writes') :
                   writes'[k].id = i /\ writes'[k].ok => IsDone(f, writes'[k].row[f])]_vars

\* C3: a stage has executed a statement on a record of which a flag is done
C3_Witness ==
    \E k \in 1..Len(writes) :
        /\ writes[k].ok
        /\ writes[k].field \in StageFlags
        /\ \E f \in StageFlags \ {writes[k].field} : IsDone(f, media[writes[k].id][f])

\* C5: once a stage of the run has reported failure, the run has
\* overall_success = false, the failed stage is the last one with a result,
\* and no further stage is started (no result, no pipeline_status row, no
\* batch).
C5_StopOnFirstFailure ==
    /\ [](\A k \in 1..Len(run.stages) :
             ~run.stages[k].success => ~run.overall_success /\ k = Len(run.stages))
    /\ [][~run.overall_success =>
             /\ Len(run'.stages) = Len(run.stages)
             /\ pstatus' = pstatus
             /\ pc' \in {"done"}]_vars

\* C5: a run ended after a failed stage with requested stages left unstarted
C5_Witness ==
    /\ pc = "done"
    /\ exit_code = 1
    /\ ~run.overall_success
    /\ stages # <<>>
    /\ Len(run.stages) >= 1

\* C2: the deletion stage executes its deleted_icloud update on a record only
\* if the record has album_moved = 1 and the local copy of the file is then
\* gone from the filesystem.
C2_DeletedOnlyWhenLocalGone ==
    \A k \in 1..Len(writes) :
        writes[k].field = "deleted_icloud" /\ writes[k].ok =>
            /\ media[writes[k].id].album_moved = 1
            /\ fs[writes[k].id] = "gone"

\* C4: when the step that finished a file executed a flag update or an error
\* increment that returned success, the committed table, which is what any
\* later query on a fresh connection reads, holds the value it wrote.
C4_OutcomeDurable ==
    last.outcome # "none" /\ writes # <<>> =>
        LET w == writes[Len(writes)]
        IN w.ok => media[w.id][w.field] = w.row[w.field]

\* C6: add_media_record called twice in a row with the same icloud_id, as two
\* scans of the same file do, leaves the row in the table and the second
\* call returns false.
C6_InsertIdempotent ==
    \A i \in IDs :
        fs[i] = "orig" =>
            LET s == scan_and_update_db(media, <<i, i>>)
            IN ~s.stmts[2].ok /\ s.db[i].present

\* C7: a file counted failed because every attempt of its executor failed
\* had the executor invoked exactly max_retries times in that stage run.
C7_RetryBound ==
    last.outcome = "failed" /\ last.exhausted => calls = max_retries

Flags(r) == [f \in StageFlags |-> r[f]]

\* C8: the step that exhausts the attempts for a file raises the record's
\* error_count, leaves its stage flags as they were, and leaves the record
\* selected by the gate query of the same stage.
C8_ExhaustedRecorded ==
    [][last'.outcome = "failed" /\ last'.exhausted =>
          /\ media'[last'.id].error_count > media[last'.id].error_count
          /\ Flags(media'[last'.id]) = Flags(media[last'.id])
          /\ last'.id \in Range(GateOf(cur, media'))]_vars

\* C9: a step that finishes a file of the batch for which nothing exists at
\* local_path counts the file failed, raises its error_count, leaves its
\* stage flags as they were and goes on with the rest of the batch.
C9_MissingFileFails ==
    [][pc = "files" /\ batch # <<>> /\ fs[Head(batch)] # "orig" /\ last'.id = Head(batch) =>
          /\ last'.outcome = "failed"
          /\ media'[last'.id].error_count > media[last'.id].error_count
          /\ Flags(media'[last'.id]) = Flags(media[last'.id])
          /\ \A k \in 1..Len(writes') : writes'[k].field \notin StageFlags
          /\ batch' = Tail(batch)]_vars

\* C10: in a run with dry_run nothing is written to media or pipeline_status,
\* no stage module runs and nothing is sent to an external collaborator.
C10_DryRunNoEffects ==
    dry_run =>
        /\ pstatus = <<>>
        /\ writes = <<>>
        /\ pc # "files"
        /\ notes = <<>>

\* position of a stage in PipelineOrchestrator.stages
StagePos(stage) == CHOOSE k \in 1..Len(StageOrder) : StageOrder[k] = stage

\* C11: the stages a run has executed so far were executed in the fixed order
\* icloud_sync, pixel_sync, nas_sync, compression, cleanup, deletion, whatever
\* the order of the requested list: a stage with a later result never stands
\* before one with an earlier result in that order.
C11_FixedStageOrder ==
    \A k, l \in 1..Len(run.stages) :
        k < l => StagePos(run.stages[k].stage) <= StagePos(run.stages[l].stage)

\* C12: a run that ended with exit code 0 had every stage result successful
\* and no update of the record store that failed; and a batch that ends with
\* failed files makes the run unsuccessful.
C12_ExitZeroOnlyIfClean ==
    /\ [](pc = "done" /\ exit_code = 0 =>
             /\ \A k \in 1..Len(run.stages) : run.stages[k].success
             /\ "write" \notin dberr)
    /\ [][pc = "files" /\ batch = <<>> /\ results.failed > 0 => ~run'.overall_success]_vars

\* C19: once a read or write of the record store has failed in a run, no
\* file is worked on after the one at hand is finished, no stage produces a
\* result after the one at hand, and the run ends with a nonzero exit code.
C19_AbortOnStoreFailure ==
    /\ [][dberr # {} /\ last.outcome # "none" => last'.outcome = "none" /\ attempt' = attempt]_vars
    /\ [][dberr # {} /\ pc = "loop" => Len(run'.stages) = Len(run.stages)]_vars
    /\ [](pc = "done" /\ dberr # {} => exit_code # 0)

\* C13: along the chain of stages, with the external action succeeding: the
\* replica-sync stage that marks a record leaves synced_google = 'yes' in the
\* store, the archive stage that syncs it leaves synced_nas = 'yes', a record
\* with both flags and album_moved = 0 is in the cleanup gate's result, the
\* cleanup stage that moves it leaves album_moved = 1 and the deletion stage
\* that deletes it leaves deleted_icloud = 'yes'.
C13_ChainSetsFlags ==
    [][/\ \A k \in 1..Len(writes') :
             writes'[k].field = "synced_google" /\ writes'[k].ok =>
                 media'[writes'[k].id].synced_google = "yes"
       /\ last'.outcome = "ok" /\ cur = "nas_sync" => media'[last'.id].synced_nas = "yes"
       /\ \A i \in IDs :
             media'[i].present /\ ReadyForCleanup(media'[i]) =>
                 i \in Range(get_media_ready_for_cleanup(media'))
       /\ last'.outcome = "ok" /\ cur = "cleanup" => media'[last'.id].album_moved = 1
       /\ last'.outcome = "ok" /\ cur = "deletion" => media'[last'.id].deleted_icloud = "yes"]_vars

\* C14: after an interrupted run, a record whose file a stage had just
\* finished with success when the interruption came is not handed to the
\* executor of that stage again by a later invocation.
C14_ResumeSkipsDoneWork ==
    [][pc = "files" /\ batch # <<>> /\ cur = resumed.stage /\ Head(batch) = resumed.id =>
          /\ attempt' = attempt
          /\ last'.id = resumed.id => last'.outcome = "skipped"]_vars

\* C15: a deletion attempt on a record whose photo is no longer in the iCloud
\* album and whose local file is no longer at local_path finds both already
\* absent and succeeds: the file is counted successful.
C15_AbsentIsSuccess ==
    [][/\ pc = "files" /\ cur = "deletion" /\ batch # <<>>
       /\ media[Head(batch)].deleted_icloud # "yes"
       /\ ~album[Head(batch)]
       /\ fs[Head(batch)] # "orig"
       /\ (attempt' # attempt \/ last'.outcome # "none")
       => last'.id = Head(batch) /\ last'.outcome = "ok"]_vars

\* C16: the cleanup gate returns a record exactly when its status is
\* 'downloaded', synced_google = 'yes', synced_nas = 'yes' and album_moved = 0,
\* whatever last_compressed is; a record with synced_nas unset is not returned.
C16_CleanupGateExact ==
    pc = "queried" /\ cur = "cleanup" =>
        \A i \in IDs :
            i \in Range(batch) <=>
                /\ media[i].present
                /\ media[i].status = "downloaded"
                /\ media[i].synced_google = "yes"
                /\ media[i].synced_nas = "yes"
                /\ media[i].album_moved = 0

\* C16: the cleanup gate has returned a compressed record and left out one
\* with synced_google = 'yes' and synced_nas unset
C16_Witness ==
    /\ pc = "queried"
    /\ cur = "cleanup"
    /\ \E i \in Range(batch) : media[i].last_compressed = "ts"
    /\ \E j \in IDs \ Range(batch) :
          media[j].present /\ media[j].synced_google = "yes" /\ media[j].synced_nas = "NULL"
              /\ media[j].album_moved = 0

\* C17: where the calls on the NAS do not raise, sync_file_to_nas on a file
\* whose destination exists with the size of the source calls no copy and
\* returns True, and a second run of it after a successful one calls no copy:
\* two runs on the same file copy it at most once.
C17_NoRedundantCopy ==
    \A i \in IDs : \A o1, o2 \in {"ok", "mismatch", "partial"} :
        fs[i] = "orig" =>
            LET r1 == sync_file_to_nas(TRUE, nas[i], o1)
                r2 == sync_file_to_nas(TRUE, r1.nas, o2)
            IN /\ nas[i] = "ok" => r1.ret /\ ~r1.copied
               /\ r1.ret => r2.ret /\ ~r2.copied

\* C17: the archive stage has synced a file, which is now on the NAS with the
\* source still at local_path
C17_Witness ==
    /\ cur = "nas_sync"
    /\ last.outcome = "ok"
    /\ nas[last.id] = "ok"
    /\ fs[last.id] = "orig"

\* C18: a step rewrites the file at local_path, or executes the update that
\* sets last_compressed and current_size, only with a size that is at least
\* min_compression_ratio percent below the size the file had: a smaller
\* shrink leaves file, flag and size fields as they were.
C18_SmallShrinkKept ==
    [][\A i \in IDs :
          /\ disk'[i] # disk[i] =>
                (disk[i] - disk'[i]) * 100 >= min_compression_ratio * disk[i]
          /\ \A k \in 1..Len(writes') :
                writes'[k].id = i /\ writes'[k].field = "last_compressed" =>
                    (disk[i] - writes'[k].row.current_size) * 100
                        >= min_compression_ratio * disk[i]]_vars

\* C20: a cleanup step that takes the file from its recorded location
\* (fs = "orig", the local_path of the row) to the delete_pending folder also
\* executes an update of the row's local_path to that folder, so that the
\* deletion stage looks for the file where it is.
C20_PathFollowsFile ==
    [][\A i \in IDs :
          fs[i] = "orig" /\ fs'[i] = "pending" =>
              \E k \in 1..Len(writes') :
                  /\ writes'[k].id = i
                  /\ writes'[k].field = "local_path"]_vars

\* C21: a record that the cleanup gate still returns and whose file an
\* earlier attempt has already moved out of its recorded location (to the
\* processed or the delete_pending folder) is finished by a cleanup attempt
\* in which the external actions succeed: the attempt reaches the album add
\* and its album_moved update hits the row.
C21_PartialCleanupResumes ==
    \A i \in IDs :
        /\ media[i].present
        /\ ReadyForCleanup(media[i])
        /\ fs[i] \in {"processed", "pending"}
        => /\ cleanup_file(fs[i], "ok").added
           /\ mark_album_moved(media, i).ok

C23_FalseUpdateFails ==
    [][(\E k \in 1..Len(writes') : writes'[k].field \in StageFlags /\ ~writes'[k].ok) =>
          /\ last'.outcome # "ok"
          /\ Len(run'.stages) > Len(run.stages) => ~run'.stages[Len(run'.stages)].success]_vars

\* C24: every synced_google update that mark_files_synced executes is on a
\* record whose filename is in the list of fully synced names of that call,
\* whose status is 'downloaded', and before which no other record with
\* status 'downloaded' carries the same filename.
C24_MarkOnlyFirstMatch ==
    pc = "queried" /\ cur = "pixel_sync" =>
        \A k \in 1..Len(writes) :
            writes[k].field = "synced_google" =>
                LET i == writes[k].id
                IN /\ media[i].filename \in Range(batch)
                   /\ media[i].status = "downloaded"
                   /\ \A j \in 1..(i - 1) :
                         ~(/\ media[j].present
                           /\ media[j].status = "downloaded"
                           /\ media[j].filename = media[i].filename)

\* C24: a record has been marked while a later record with the same filename,
\* status 'downloaded' and synced_google unset has been left alone
C24_Witness ==
    /\ pc = "queried"
    /\ cur = "pixel_sync"
    /\ \E k \in 1..Len(writes) :
          /\ writes[k].field = "synced_google"
          /\ writes[k].ok
          /\ \E j \in IDs :
                /\ j > writes[k].id
                /\ media[j].present
                /\ media[j].status = "downloaded"
                /\ media[j].filename = media[writes[k].id].filename
                /\ media[j].synced_google = "NULL"
                /\ \A l \in 1..Len(writes) : writes[l].id # j

\* C25: when a batch stage returns, the stage result appended to the run
\* (from which the stage-complete notification takes its counts) and the
\* completed pipeline_status row carry the batch's counts: files_processed is
\* the number of files the batch went through and files_failed the number it
\* counted failed.
C25_StageCountsMatchBatch ==
    [][pc = "files" /\ batch = <<>> /\ Len(run'.stages) > Len(run.stages) =>
          LET r == run'.stages[Len(run'.stages)]
              row == pstatus'[Len(pstatus')]
          IN /\ r.files_processed = results.total
             /\ r.files_failed = results.failed
             /\ row.files_processed = results.total
             /\ row.files_failed = results.failed]_vars

\* the notifications of one kind sent so far, in order
NotesOf(kind) == SelectSeq(notes, LAMBDA n : n.kind = kind)

\* C26: in every run that got past the environment check, the run-start
\* notification is the first one and there is exactly one, sent before any
\* stage row is opened; the stage-complete notifications are, one for one
\* and in order, the stage results of the run; a finished run has exactly one
\* run-complete notification, sent last, and none before it has finished; and
\* a run that ended unsuccessful has a run-error notification that names the
\* failed stage.
C26_NotificationsPerRun ==
    /\ pstatus # <<>> \/ run.stages # <<>> => notes # <<>>
    /\ notes # <<>> =>
          /\ notes[1].kind = "start"
          /\ Len(NotesOf("start")) = 1
          /\ Len(NotesOf("stage")) = Len(run.stages)
          /\ \A k \in 1..Len(run.stages) :
                /\ NotesOf("stage")[k].stage = run.stages[k].stage
                /\ NotesOf("stage")[k].success = run.stages[k].success
          /\ Len(NotesOf("complete")) = (IF pc = "done" THEN 1 ELSE 0)
          /\ pc = "done" => notes[Len(notes)].kind = "complete"
          /\ ~run.overall_success =>
                \E k \in 1..Len(notes) :
                    /\ notes[k].kind = "error"
                    /\ notes[k].stage = run.stages[Len(run.stages)].stage
                    /\ ~run.stages[Len(run.stages)].success

\* C26: a run of more than one stage has ended after a failed stage, with
\* all its notifications sent
C26_Witness ==
    /\ pc = "done"
    /\ ~run.overall_success
    /\ Len(run.stages) >= 2
    /\ Len(notes) = Len(run.stages) + 3

\* the sizes a file at local_path can have
Sizes == {50, 97, 100}

\* C27: a record whose initial_size has a value keeps it through every step:
\* in the table, and in the row every statement of the step leaves behind,
\* the compression step that shrinks the file included; and of two
\* set_initial_size calls on a record, the second one on the row the first
\* one wrote, the second leaves the value of the first.
C27_InitialSizeWrittenOnce ==
    /\ [][\A i \in IDs :
             media[i].initial_size # 0 =>
                 /\ media'[i].initial_size = media[i].initial_size
                 /\ \A k \in 1..Len(writes') :
                       writes'[k].id = i /\ writes'[k].ok =>
                           writes'[k].row.initial_size = media[i].initial_size]_vars
    /\ [](\A i \in IDs : \A s1, s2 \in Sizes :
             media[i].present =>
                 LET first == set_initial_size(media, i, s1).stmt.row
                     second == set_initial_size([media EXCEPT ![i] = first], i, s2).stmt.row
                 IN /\ first.initial_size # 0
                    /\ second.initial_size = first.initial_size)

\* C27: the compression stage has run set_initial_size on a record that had
\* a value, and has shrunk the file to another size
C27_Witness ==
    \E k \in 1..Len(writes) :
        /\ writes[k].field = "initial_size"
        /\ writes[k].ok
        /\ media[writes[k].id].initial_size # 0
        /\ writes[k].value = media[writes[k].id].initial_size
        /\ disk[writes[k].id] # writes[k].value

\* C28: with --dry-run, no step of the step-based orchestrator executes a
\* step script, and no file is moved, copied, compressed or deleted.
C28_WorkflowDryRunNoChange ==
    [][dry_run => executed' = executed /\ fs' = fs /\ nas' = nas /\ disk' = disk]_vars

\* C29: in a batch of the archive, compression, cleanup or deletion stage,
\* the files the gate query returned are those still to come plus those
\* counted, each in exactly one of successful, failed and skipped, so that
\* total = successful + failed + skipped when the batch returns; and the
\* stage that returns from a batch reports success exactly when failed = 0.
C29_BatchCountsAddUp ==
    /\ [](pc = "files" =>
             /\ cur \in BatchStages
             /\ results.total = results.successful + results.failed + results.skipped + Len(batch))
    /\ [][pc = "files" /\ batch # <<>> /\ batch' = Tail(batch) =>
             results'.successful + results'.failed + results'.skipped
                 = results.successful + results.failed + results.skipped + 1]_vars
    /\ [][pc = "files" /\ batch = <<>> /\ Len(run'.stages) > Len(run.stages) =>
             run'.stages[Len(run'.stages)].success = (results.failed = 0)]_vars

\* C29: a batch of two files has come to its end with one file counted
\* failed and the other one not
C29_Witness ==
    /\ pc = "files"
    /\ batch = <<>>
    /\ results.total >= 2
    /\ results.failed >= 1
    /\ results.failed < results.total

\* the error_count increments among the statements of the last step on a record
ErrorIncrements(w, i) == SelectSeq(w, LAMBDA x : x.id = i /\ x.field = "error_count")

\* C30: for a file that fails in a stage run, exactly one error_count
\* increment is executed in that run: one in the step that counts the file
\* failed, none in a failed attempt that is followed by another attempt,
\* whether the attempt returned false or raised; and no step lowers the
\* error_count of a record.
C30_OneErrorIncrementPerFailure ==
    /\ [][last'.outcome = "failed" => Len(ErrorIncrements(writes', last'.id)) = 1]_vars
    /\ [][pc = "files" /\ attempt' = attempt + 1 =>
             ErrorIncrements(writes', Head(batch)) = <<>>]_vars
    /\ [][\A i \in IDs : media'[i].error_count >= media[i].error_count]_vars

====
